---- MODULE Spec2Model ----
(***************************************************************************)
(* Model of the recipe consultant (ConsulenteRicette): an experta          *)
(* KnowledgeEngine with eleven rules, driven by reset() and run(), and the *)
(* console collaborators of interfacciaConUtente.                          *)
(*                                                                         *)
(* The engine is the experta library used as the source uses it:           *)
(*   - a fact list without duplicates, every fact with a fact id in        *)
(*     insertion order (index into facts),                                 *)
(*   - a matcher memory: the activations (rule, matched facts) that        *)
(*     currently match; only NEW matches are added to the agenda,          *)
(*   - the depth strategy: the next activation is the one with the         *)
(*     greatest key (salience, fact ids sorted descending).                *)
(* A rule action runs to completion; the model observes it where it        *)
(* blocks on input() and at the head of the run loop, after the agenda     *)
(* has been refreshed.                                                     *)
(***************************************************************************)
EXTENDS Integers, Sequences, FiniteSets, TLC

VARIABLES
    facts,                    \* engine fact list, facts[i] has fact id i
    memory,                   \* matcher memory: activations currently matched
    agenda,                   \* activations waiting to fire
    pc,                       \* position of the program
    cur,                      \* activation whose action is running
    log,                      \* history: firings, prompts, collaborator calls
    retries,                  \* invalid answers given to the pending prompt
    ingredienti_disponibili,  \* module global of interfacciaConUtente
    candidati_lista           \* local list of scegli_candidati while it prompts

vars == <<facts, memory, agenda, pc, cur, log, retries,
          ingredienti_disponibili, candidati_lista>>

---------------------------------------------------------------------------
(* Bounds of the model *)

MaxRetry == 1

\* the greatest number of minutes the conversion is evaluated on
MaxMinuti == 120

---------------------------------------------------------------------------
(* Facts *)

Fatto(f, v) == [f |-> f, v |-> v]

InitialFact == Fatto("InitialFact", "")

NoAct == [rule |-> "none", ids |-> {}]

\* what the user can type between commas at the ingredient prompt
TokenIngredienti == {"pasta", "pomodoro", "uova", " Lattuga"}

Permutazioni(S) ==
    {s \in [1..Cardinality(S) -> S] : \A i, j \in 1..Cardinality(S) : s[i] = s[j] => i = j}

\* answers to the ingredient prompt: nothing, the ingredients of one rule
\* and of no rule in every order, the ingredients of two rules with uova
\* first, in the middle and last, and repeated ingredients
RisposteIngredienti ==
    {<<>>}
    \cup UNION {Permutazioni(S) : S \in {{"pasta"}, {"uova"}, {"pasta", "pomodoro"},
                                       {" Lattuga", "pomodoro"}}}
    \cup {<<"uova", " Lattuga", "pomodoro">>, <<"pomodoro", "uova", " Lattuga">>,
          <<" Lattuga", "pomodoro", "uova">>}
    \cup {<<"uova", "uova">>, <<"pomodoro", "pasta", "pomodoro">>,
          <<"pasta", "pomodoro", "uova", " Lattuga">>}

\* answers to the preference prompt
RispostePreferenze == {<<>>, <<"nessuna">>, <<"vegetariano">>}

\* ing.strip().lower()
Normalizza(tok) == IF tok = " Lattuga" THEN "lattuga" ELSE tok

RECURSIVE SeqMap(_)
SeqMap(s) == IF s = <<>> THEN <<>> ELSE <<Normalizza(Head(s))>> \o SeqMap(Tail(s))

Range(s) == {s[i] : i \in 1..Len(s)}

Present(F, fatto) == \E i \in 1..Len(F) : F[i] = fatto

\* one entry of the history: a firing ("fire"), a question put to the user
\* ("prompt"), a collaborator call ("call") or a declare of a fact that was
\* already present ("dup"); at = number of facts when it happened
Evento(kind, name, ids, val, arg, at) ==
    [kind |-> kind, name |-> name, ids |-> ids, val |-> val, arg |-> arg, at |-> at]

\* variant: a fact list that accepts duplicates
RECURSIVE Declare_duplicati(_, _, _)
Declare_duplicati(F, L, fs) ==
    IF fs = <<>> THEN [facts |-> F, log |-> L]
    ELSE Declare_duplicati(Append(F, Head(fs)), L, Tail(fs))

\* self.declare(...) for a list of facts, in order: a fact whose content is
\* already in the fact list is ignored, a new one gets the next fact id.
RECURSIVE Declare(_, _, _)
Declare(F, L, fs) ==
    IF fs = <<>> THEN [facts |-> F, log |-> L]
    ELSE LET fatto == Head(fs) IN
         IF Present(F, fatto)
         THEN Declare(F, Append(L, Evento("dup", fatto.f, {}, fatto.v, <<>>, Len(F))), Tail(fs))
         ELSE Declare(Append(F, fatto), L, Tail(fs))

---------------------------------------------------------------------------
(* Rules: salience and conditions *)

Regole == {"chiedi_ingredienti", "chiedi_tempo", "chiedi_preferenze",
           "suggerisci_pasta_pomodoro", "suggerisci_uova_strapazzate",
           "suggerisci_insalata", "scegli_candidati", "nessuna_ricetta_trovata",
           "valuta_ricetta_con_bayes", "stampare_risultato_finale",
           "terminare_esecuzione"}

\* variant: nessuna_ricetta_trovata with a salience above the candidate rules
Salience_nessuna_alta(r) ==
    CASE r = "chiedi_ingredienti"          -> 20
      [] r = "chiedi_tempo"                -> 18
      [] r = "chiedi_preferenze"           -> 16
      [] r = "suggerisci_pasta_pomodoro"   -> 2
      [] r = "suggerisci_uova_strapazzate" -> 2
      [] r = "suggerisci_insalata"         -> 2
      [] r = "scegli_candidati"            -> 1
      [] r = "nessuna_ricetta_trovata"     -> 3
      [] r = "valuta_ricetta_con_bayes"    -> -1
      [] r = "stampare_risultato_finale"   -> -2
      [] r = "terminare_esecuzione"        -> -20

\* variant: suggerisci_insalata with a salience below scegli_candidati
Salience_insalata_bassa(r) ==
    CASE r = "chiedi_ingredienti"          -> 20
      [] r = "chiedi_tempo"                -> 18
      [] r = "chiedi_preferenze"           -> 16
      [] r = "suggerisci_pasta_pomodoro"   -> 2
      [] r = "suggerisci_uova_strapazzate" -> 2
      [] r = "suggerisci_insalata"         -> 0
      [] r = "scegli_candidati"            -> 1
      [] r = "nessuna_ricetta_trovata"     -> 0
      [] r = "valuta_ricetta_con_bayes"    -> -1
      [] r = "stampare_risultato_finale"   -> -2
      [] r = "terminare_esecuzione"        -> -20

\* variant: scegli_candidati with a salience above the candidate rules
Salience_scegli_alta(r) ==
    CASE r = "chiedi_ingredienti"          -> 20
      [] r = "chiedi_tempo"                -> 18
      [] r = "chiedi_preferenze"           -> 16
      [] r = "suggerisci_pasta_pomodoro"   -> 2
      [] r = "suggerisci_uova_strapazzate" -> 2
      [] r = "suggerisci_insalata"         -> 2
      [] r = "scegli_candidati"            -> 3
      [] r = "nessuna_ricetta_trovata"     -> 0
      [] r = "valuta_ricetta_con_bayes"    -> -1
      [] r = "stampare_risultato_finale"   -> -2
      [] r = "terminare_esecuzione"        -> -20

\* salience of the @Rule decorators, doubled to stay in the integers
\* (0.5 -> 1, -0.5 -> -1)
Salience(r) ==
    CASE r = "chiedi_ingredienti"          -> 20
      [] r = "chiedi_tempo"                -> 18
      [] r = "chiedi_preferenze"           -> 16
      [] r = "suggerisci_pasta_pomodoro"   -> 2
      [] r = "suggerisci_uova_strapazzate" -> 2
      [] r = "suggerisci_insalata"         -> 2
      [] r = "scegli_candidati"            -> 1
      [] r = "nessuna_ricetta_trovata"     -> 0
      [] r = "valuta_ricetta_con_bayes"    -> -1
      [] r = "stampare_risultato_finale"   -> -2
      [] r = "terminare_esecuzione"        -> -20

Idx(F, f, v) == {i \in 1..Len(F) : F[i] = Fatto(f, v)}

IdxAny(F, f) == {i \in 1..Len(F) : F[i].f = f}

Act(r, ids) == [rule |-> r, ids |-> ids]

Az(F, v) == Idx(F, "azione", v)

Ing(F, v) == Idx(F, "ingrediente", v)

Tm(F, v) == Idx(F, "tempo_disponibile", v)

\* Conditions of the rules (the @Rule decorators): the activations of each
\* rule against the fact list F, one for every combination of matching facts.
Cond_chiedi_ingredienti(F) ==
    {Act("chiedi_ingredienti", {a}) : a \in Az(F, "chiediIngredienti")}

Cond_chiedi_tempo(F) ==
    {Act("chiedi_tempo", {a}) : a \in Az(F, "chiediTempo")}

Cond_chiedi_preferenze(F) ==
    {Act("chiedi_preferenze", {a}) : a \in Az(F, "chiediPreferenze")}

Cond_suggerisci_pasta_pomodoro(F) ==
    {Act("suggerisci_pasta_pomodoro", {q[1], q[2], q[3], q[4]}) :
        q \in Az(F, "trovaRicetta") \X Ing(F, "pasta") \X Ing(F, "pomodoro")
              \X (Tm(F, "medio") \cup Tm(F, "molto"))}

\* variant: suggerisci_uova_strapazzate without the condition on the time
Cond_suggerisci_uova_strapazzate_senza_tempo(F) ==
    {Act("suggerisci_uova_strapazzate", {q[1], q[2]}) :
        q \in Az(F, "trovaRicetta") \X Ing(F, "uova")}

Cond_suggerisci_uova_strapazzate(F) ==
    {Act("suggerisci_uova_strapazzate", {q[1], q[2], q[3]}) :
        q \in Az(F, "trovaRicetta") \X Ing(F, "uova") \X Tm(F, "poco")}

Cond_suggerisci_insalata(F) ==
    {Act("suggerisci_insalata", {q[1], q[2], q[3], q[4]}) :
        q \in Az(F, "trovaRicetta") \X Ing(F, "lattuga") \X Ing(F, "pomodoro")
              \X Tm(F, "poco")}

Cond_scegli_candidati(F) ==
    {Act("scegli_candidati", {q[1], q[2]}) :
        q \in Az(F, "trovaRicetta") \X IdxAny(F, "candidato")}

\* variant: the rule without its NOT(Fact(candidato=W())) condition
Cond_nessuna_ricetta_trovata_senza_not(F) ==
    {Act("nessuna_ricetta_trovata", {a}) : a \in Az(F, "trovaRicetta")}

Cond_nessuna_ricetta_trovata(F) ==
    IF IdxAny(F, "candidato") = {}
    THEN {Act("nessuna_ricetta_trovata", {a}) : a \in Az(F, "trovaRicetta")}
    ELSE {}

\* variant: the rule is also matched against the candidato facts
Cond_valuta_ricetta_con_bayes_per_candidato(F) ==
    {Act("valuta_ricetta_con_bayes", {q[1], q[2], q[3]}) :
        q \in Az(F, "valutaRicetta") \X IdxAny(F, "ricetta_suggerita")
              \X IdxAny(F, "candidato")}

Cond_valuta_ricetta_con_bayes(F) ==
    {Act("valuta_ricetta_con_bayes", {q[1], q[2]}) :
        q \in Az(F, "valutaRicetta") \X IdxAny(F, "ricetta_suggerita")}

Cond_stampare_risultato_finale(F) ==
    {Act("stampare_risultato_finale", {q[1], q[2], q[3]}) :
        q \in Az(F, "stampaRisultato") \X IdxAny(F, "ricetta_suggerita")
              \X IdxAny(F, "valutazione_ricetta")}

\* variant: terminare_esecuzione matches every azione fact
Cond_terminare_esecuzione_per_azione(F) ==
    {Act("terminare_esecuzione", {a}) : a \in IdxAny(F, "azione")}

Cond_terminare_esecuzione(F) ==
    {Act("terminare_esecuzione", {a}) : a \in Az(F, "termina")}

RegoleCandidato == {"suggerisci_pasta_pomodoro", "suggerisci_uova_strapazzate",
                    "suggerisci_insalata"}

\* The activations of every rule against the fact list F.
Matches(F) ==
    Cond_chiedi_ingredienti(F) \cup Cond_chiedi_tempo(F) \cup Cond_chiedi_preferenze(F)
    \cup Cond_suggerisci_pasta_pomodoro(F) \cup Cond_suggerisci_uova_strapazzate(F)
    \cup Cond_suggerisci_insalata(F) \cup Cond_scegli_candidati(F)
    \cup Cond_nessuna_ricetta_trovata(F) \cup Cond_valuta_ricetta_con_bayes(F)
    \cup Cond_stampare_risultato_finale(F) \cup Cond_terminare_esecuzione(F)

---------------------------------------------------------------------------
(* Agenda: depth strategy *)

SetMax(S) == CHOOSE x \in S : \A y \in S : y <= x

\* comparison of two fact-id lists sorted in descending order
RECURSIVE DescLess(_, _)
DescLess(S, T) ==
    IF T = {} THEN FALSE
    ELSE IF S = {} THEN TRUE
    ELSE IF SetMax(S) < SetMax(T) THEN TRUE
    ELSE IF SetMax(S) > SetMax(T) THEN FALSE
    ELSE DescLess(S \ {SetMax(S)}, T \ {SetMax(T)})

\* variant: a key that leaves the salience out
KeyLess_senza_salience(a, b) == DescLess(a.ids, b.ids)

\* position of the rule in the class body
Dichiarazione(r) ==
    CASE r = "chiedi_ingredienti"          -> 1
      [] r = "chiedi_tempo"                -> 2
      [] r = "chiedi_preferenze"           -> 3
      [] r = "suggerisci_pasta_pomodoro"   -> 4
      [] r = "suggerisci_uova_strapazzate" -> 5
      [] r = "suggerisci_insalata"         -> 6
      [] r = "scegli_candidati"            -> 7
      [] r = "nessuna_ricetta_trovata"     -> 8
      [] r = "valuta_ricetta_con_bayes"    -> 9
      [] r = "stampare_risultato_finale"   -> 10
      [] r = "terminare_esecuzione"        -> 11

\* variant: equal salience is ordered by the declaration of the rules
KeyLess_per_dichiarazione(a, b) ==
    \/ Salience(a.rule) < Salience(b.rule)
    \/ Salience(a.rule) = Salience(b.rule) /\ Dichiarazione(a.rule) > Dichiarazione(b.rule)
    \/ a.rule = b.rule /\ DescLess(a.ids, b.ids)

\* key (salience, facts): a fires after b
KeyLess(a, b) ==
    \/ Salience(a.rule) < Salience(b.rule)
    \/ Salience(a.rule) = Salience(b.rule) /\ DescLess(a.ids, b.ids)

\* agenda.get_next(): the activations that may be popped
Top(ag) == {a \in ag : \A b \in ag : ~KeyLess(a, b)}

\* variant: every current match is added again, fired or not
UpdateAgenda_senza_memoria(mem, m, ag) == (ag \ (mem \ m)) \cup m

\* update_agenda(agenda, added, removed): the matches m of the refreshed
\* matcher that are new since the last refresh (memory mem) enter the agenda,
\* the ones that no longer hold leave it.
UpdateAgenda(mem, m, ag) == (ag \ (mem \ m)) \cup (m \ mem)

---------------------------------------------------------------------------
(* Initial state: ConsulenteRicette(); reset() *)

FattiIniziali == <<InitialFact, Fatto("azione", "chiediIngredienti")>>

Init ==
    /\ facts = FattiIniziali
    /\ memory = Matches(FattiIniziali)
    /\ agenda = Matches(FattiIniziali)
    /\ pc = "run"
    /\ cur = NoAct
    /\ log = <<>>
    /\ retries = 0
    /\ ingredienti_disponibili = <<>>
    /\ candidati_lista = <<>>

---------------------------------------------------------------------------
(* The run loop and the rule actions *)

\* run(): activation = self.agenda.get_next(); activation.rule(self, ...)
Pop(a, r) ==
    /\ pc = "run"
    /\ a \in Top(agenda)
    /\ a.rule = r

Fired(a) == Evento("fire", a.rule, a.ids, "", <<>>, Len(facts))

Prompt(name) == Evento("prompt", name, {}, "", <<>>, Len(facts))

Call(name, val, arg) == Evento("call", name, {}, val, arg, Len(facts))

\* the action declares fs and returns; run() refreshes the matcher
\* (get_activations) and the agenda
Concludi(fs, L, ag) ==
    /\ facts' = Declare(facts, L, fs).facts
    /\ log' = Declare(facts, L, fs).log
    /\ memory' = Matches(facts')
    /\ agenda' = UpdateAgenda(memory, memory', ag)
    /\ pc' = "run"
    /\ cur' = NoAct
    /\ retries' = 0

\* the action blocks on input()
Attendi(a, stato, L) ==
    /\ pc' = stato
    /\ cur' = a
    /\ agenda' = agenda \ {a}
    /\ log' = L
    /\ UNCHANGED <<facts, memory, retries>>

\* variant: the prompt leaves a fact behind when it rejects an answer
Ripeti_con_declare ==
    /\ retries < MaxRetry
    /\ retries' = retries + 1
    /\ facts' = Append(facts, Fatto("risposta", "non valida"))
    /\ UNCHANGED <<memory, agenda, pc, cur, log,
                   ingredienti_disponibili, candidati_lista>>

\* an answer the prompt loop rejects: the same question is asked again
Ripeti ==
    /\ retries < MaxRetry
    /\ retries' = retries + 1
    /\ UNCHANGED <<facts, memory, agenda, pc, cur, log,
                   ingredienti_disponibili, candidati_lista>>

\* variant: the run loop swallows the exception and goes on
Solleva_e_continua(a, L) ==
    /\ pc' = "run"
    /\ cur' = NoAct
    /\ agenda' = agenda \ {a}
    /\ log' = Append(L, Evento("error", a.rule, a.ids, "", <<>>, Len(facts)))
    /\ UNCHANGED <<facts, memory, retries>>

\* an exception leaves the action of activation a: nothing is declared, the
\* run loop is abandoned with the agenda as it is, and main() catches the
\* exception and goes on to its prompt
Solleva(a, L) ==
    /\ pc' = "ask_nuova"
    /\ cur' = NoAct
    /\ agenda' = agenda \ {a}
    /\ log' = Append(L, Evento("error", a.rule, a.ids, "", <<>>, Len(facts)))
    /\ UNCHANGED <<facts, memory, retries>>

\* value of the fact matched by activation a on field f
Valore(a, f) == facts[CHOOSE i \in a.ids : facts[i].f = f].v

RECURSIVE FattiDi(_, _)
FattiDi(f, vs) ==
    IF vs = <<>> THEN <<>> ELSE <<Fatto(f, Head(vs))>> \o FattiDi(f, Tail(vs))

\* [fact[f] for fact in self.facts.values() if f in fact]
RECURSIVE ValoriDi(_, _)
ValoriDi(F, f) ==
    IF F = <<>> THEN <<>>
    ELSE (IF Head(F).f = f THEN <<Head(F).v>> ELSE <<>>) \o ValoriDi(Tail(F), f)

chiedi_ingredienti(a) ==
    /\ Pop(a, "chiedi_ingredienti")
    /\ Attendi(a, "ask_ingredienti",
               log \o <<Fired(a), Prompt("chiedi_ingredienti_disponibili")>>)
    /\ UNCHANGED <<ingredienti_disponibili, candidati_lista>>

\* variant: chiedi_ingredienti without the return for an empty list
chiedi_ingredienti_disponibili_senza_return(risposta) ==
    /\ pc = "ask_ingredienti"
    /\ LET ing == SeqMap(risposta) IN
       /\ ingredienti_disponibili' = ing
       /\ Concludi(FattiDi("ingrediente", SeqMap(ing))
                     \o <<Fatto("azione", "chiediTempo")>>, log, agenda)
    /\ UNCHANGED candidati_lista

chiedi_ingredienti_disponibili(risposta) ==
    /\ pc = "ask_ingredienti"
    /\ LET ing == SeqMap(risposta) IN
       /\ ingredienti_disponibili' = ing
       /\ IF ing = <<>>
          THEN Concludi(<<Fatto("azione", "termina")>>, log, agenda)
          ELSE Concludi(FattiDi("ingrediente", SeqMap(ing))
                          \o <<Fatto("azione", "chiediTempo")>>, log, agenda)
    /\ UNCHANGED candidati_lista

\* variant: the first comparison is strict
converti_tempo_in_categoria_stretto(minuti) ==
    IF minuti < 20 THEN "poco"
    ELSE IF minuti <= 60 THEN "medio"
    ELSE "molto"

converti_tempo_in_categoria(minuti) ==
    IF minuti <= 20 THEN "poco"
    ELSE IF minuti <= 60 THEN "medio"
    ELSE "molto"

\* answers to the time prompt: int(risposta) fails (int = FALSE) or gives n
RisposteTempo ==
    {[int |-> FALSE, n |-> 0]} \cup {[int |-> TRUE, n |-> m] : m \in {0, 20, 21, 60, 61}}

\* variant: the check minuti <= 0 is missing
TempoValido_senza_positivo(risposta) == risposta.int

TempoValido(risposta) == risposta.int /\ risposta.n > 0

chiedi_tempo(a) ==
    /\ Pop(a, "chiedi_tempo")
    /\ Attendi(a, "ask_tempo", log \o <<Fired(a), Prompt("chiedi_tempo_disponibile")>>)
    /\ UNCHANGED <<ingredienti_disponibili, candidati_lista>>

chiedi_tempo_disponibile(risposta) ==
    /\ pc = "ask_tempo"
    /\ IF TempoValido(risposta)
       THEN /\ Concludi(<<Fatto("tempo_disponibile", converti_tempo_in_categoria(risposta.n)),
                          Fatto("azione", "chiediPreferenze")>>, log, agenda)
            /\ UNCHANGED <<ingredienti_disponibili, candidati_lista>>
       ELSE Ripeti

chiedi_preferenze(a) ==
    /\ Pop(a, "chiedi_preferenze")
    /\ Attendi(a, "ask_preferenze",
               log \o <<Fired(a), Prompt("chiedi_preferenze_alimentari")>>)
    /\ UNCHANGED <<ingredienti_disponibili, candidati_lista>>

chiedi_preferenze_alimentari(risposta) ==
    /\ pc = "ask_preferenze"
    /\ LET prefs == IF risposta = <<>> \/ risposta = <<"nessuna">> THEN <<>> ELSE risposta
       IN Concludi(FattiDi("preferenza", prefs) \o <<Fatto("azione", "trovaRicetta")>>,
                   log, agenda)
    /\ UNCHANGED <<ingredienti_disponibili, candidati_lista>>

Suggerisci(a, r, nome) ==
    /\ Pop(a, r)
    /\ Concludi(<<Fatto("candidato", nome)>>, Append(log, Fired(a)), agenda \ {a})
    /\ UNCHANGED <<ingredienti_disponibili, candidati_lista>>

suggerisci_pasta_pomodoro(a) == Suggerisci(a, "suggerisci_pasta_pomodoro", "Pasta al Pomodoro")

suggerisci_uova_strapazzate(a) == Suggerisci(a, "suggerisci_uova_strapazzate", "Uova Strapazzate")

suggerisci_insalata(a) == Suggerisci(a, "suggerisci_insalata", "Insalata Mista")

Scelta(ricetta) == <<Fatto("ricetta_suggerita", ricetta), Fatto("azione", "valutaRicetta")>>

\* variant: the user is asked even when there is one candidate
scegli_candidati_sempre_prompt(a) ==
    /\ Pop(a, "scegli_candidati")
    /\ LET candidati == Range(ValoriDi(facts, "candidato")) IN
       \E lista \in Permutazioni(candidati) :
          /\ Attendi(a, "ask_scelta", log \o <<Fired(a), Prompt("scegli_candidati")>>)
          /\ candidati_lista' = lista
          /\ UNCHANGED ingredienti_disponibili

scegli_candidati(a) ==
    /\ Pop(a, "scegli_candidati")
    /\ LET candidati == Range(ValoriDi(facts, "candidato")) IN
       \E lista \in Permutazioni(candidati) :     \* list(set): any order
          IF Len(lista) = 1
          THEN /\ Concludi(Scelta(lista[1]), Append(log, Fired(a)), agenda \ {a})
               /\ UNCHANGED <<ingredienti_disponibili, candidati_lista>>
          ELSE /\ Attendi(a, "ask_scelta", log \o <<Fired(a), Prompt("scegli_candidati")>>)
               /\ candidati_lista' = lista
               /\ UNCHANGED ingredienti_disponibili

\* answers to the selection prompt
RisposteScelta ==
    {[int |-> FALSE, n |-> 0]} \cup {[int |-> TRUE, n |-> m] : m \in 0..4}

\* variant: the range check starts at 0
SceltaValida_da_zero(risposta, lista) ==
    risposta.int /\ ~(risposta.n < 0 \/ risposta.n > Len(lista))

SceltaValida(risposta, lista) ==
    risposta.int /\ ~(risposta.n < 1 \/ risposta.n > Len(lista))

\* candidati_lista[scelta-1], with Python's indexing from the end
Elemento(lista, k) == lista[((k - 1) % Len(lista)) + 1]

input_scelta(risposta) ==
    /\ pc = "ask_scelta"
    /\ IF SceltaValida(risposta, candidati_lista)
       THEN /\ Concludi(Scelta(Elemento(candidati_lista, risposta.n)), log, agenda)
            /\ candidati_lista' = <<>>
            /\ UNCHANGED ingredienti_disponibili
       ELSE Ripeti

\* variant: the fallback without the partial-match lookup
nessuna_ricetta_trovata_senza_ricerca(a) ==
    /\ Pop(a, "nessuna_ricetta_trovata")
    /\ Concludi(<<Fatto("azione", "termina")>>, Append(log, Fired(a)), agenda \ {a})
    /\ UNCHANGED <<ingredienti_disponibili, candidati_lista>>

nessuna_ricetta_trovata(a) ==
    /\ Pop(a, "nessuna_ricetta_trovata")
    /\ LET ingredienti_utente == ValoriDi(facts, "ingrediente")
           L == IF ingredienti_utente = <<>>
                THEN Append(log, Fired(a))
                ELSE log \o <<Fired(a), Call("cerca_ricette_parziali", "", ingredienti_utente)>>
       IN Concludi(<<Fatto("azione", "termina")>>, L, agenda \ {a})
    /\ UNCHANGED <<ingredienti_disponibili, candidati_lista>>

Valutazione(v) == <<Fatto("valutazione_ricetta", v), Fatto("azione", "stampaRisultato")>>

\* results of calcola_rischio_o_successo_ricetta
NonDisponibile == "Valutazione non disponibile."

Impossibile == "Impossibile calcolare la stima."

\* f"Probabilita di successo stimata: {...}%"
Stima == "Probabilita di successo stimata"

\* variant: the run loop goes on while the evaluator waits for its input
valuta_ricetta_con_bayes_senza_blocco(a) ==
    /\ Pop(a, "valuta_ricetta_con_bayes")
    /\ LET L == log \o <<Fired(a),
                         Call("calcola_rischio_o_successo_ricetta",
                              Valore(a, "ricetta_suggerita"),
                              ValoriDi(facts, "tempo_disponibile"))>>
       IN /\ pc' = "run"
          /\ cur' = a
          /\ agenda' = agenda \ {a}
          /\ log' = Append(L, Prompt("scelta_rete"))
          /\ UNCHANGED <<facts, memory, retries, ingredienti_disponibili, candidati_lista>>

\* variant: the failure of BayesianaRicette() is not caught
valuta_ricetta_con_bayes_senza_except(a) ==
    /\ Pop(a, "valuta_ricetta_con_bayes")
    /\ LET L == log \o <<Fired(a),
                         Call("calcola_rischio_o_successo_ricetta",
                              Valore(a, "ricetta_suggerita"),
                              ValoriDi(facts, "tempo_disponibile"))>>
       IN \/ /\ Solleva(a, L)
             /\ UNCHANGED <<ingredienti_disponibili, candidati_lista>>
          \/ /\ Attendi(a, "ask_rete", Append(L, Prompt("scelta_rete")))
             /\ UNCHANGED <<ingredienti_disponibili, candidati_lista>>

valuta_ricetta_con_bayes(a) ==
    /\ Pop(a, "valuta_ricetta_con_bayes")
    /\ LET L == log \o <<Fired(a),
                         Call("calcola_rischio_o_successo_ricetta",
                              Valore(a, "ricetta_suggerita"),
                              ValoriDi(facts, "tempo_disponibile"))>>
       IN \/ /\ Concludi(Valutazione(NonDisponibile), L, agenda \ {a})  \* BayesianaRicette() raises
             /\ UNCHANGED <<ingredienti_disponibili, candidati_lista>>
          \/ /\ Attendi(a, "ask_rete", Append(L, Prompt("scelta_rete")))
             /\ UNCHANGED <<ingredienti_disponibili, candidati_lista>>

\* impara_dataset, called for answer "2", succeeds or fails; after a failure
\* the network created at the start of the call is used ("Uso la rete di
\* default"), and the history records the failure
EsitiApprendimento(risposta) == IF risposta = "2" THEN {"ok", "fallito"} ELSE {"ok"}

\* the rest of calcola_rischio_o_successo_ricetta: the answer to "(1) Usa
\* stima di default (2) Usa stima con apprendimento da dataset", the learning
\* and the inference, which gives an estimate or fails
input_rete(risposta) ==
    /\ pc = "ask_rete"
    /\ IF risposta \in {"1", "2"}
       THEN /\ \E appreso \in EsitiApprendimento(risposta) :
               \E esito \in {Stima, Impossibile} :
                  Concludi(Valutazione(esito),
                           IF appreso = "fallito"
                           THEN Append(log, Call("impara_dataset", appreso, <<>>))
                           ELSE log,
                           agenda)
            /\ UNCHANGED <<ingredienti_disponibili, candidati_lista>>
       ELSE Ripeti

\* results of _stampa_dettagli_ricetta: no alternative (the lookup returned
\* None or a record without one) or the name of an alternative
NessunaAlternativa == <<>>

Alternativa == <<"alternativa">>

Dettagli(a, esito) ==
    log \o <<Fired(a),
             Call("trova_dettagli_ricetta_in_ontologia", Valore(a, "ricetta_suggerita"), esito)>>

\* variant: without an alternative the rule forgets azione=termina
stampare_risultato_finale_senza_termina(a) ==
    /\ Pop(a, "stampare_risultato_finale")
    /\ \/ /\ Concludi(<<>>, Dettagli(a, NessunaAlternativa), agenda \ {a})
          /\ UNCHANGED <<ingredienti_disponibili, candidati_lista>>
       \/ /\ Attendi(a, "ask_alternativa",
                     Append(Dettagli(a, Alternativa), Prompt("alternativa")))
          /\ UNCHANGED <<ingredienti_disponibili, candidati_lista>>

\* variant: the question about the alternative is asked without one
stampare_risultato_finale_prompt_sempre(a) ==
    /\ Pop(a, "stampare_risultato_finale")
    /\ \E esito \in {NessunaAlternativa, Alternativa} :
          /\ Attendi(a, "ask_alternativa", Append(Dettagli(a, esito), Prompt("alternativa")))
          /\ UNCHANGED <<ingredienti_disponibili, candidati_lista>>

stampare_risultato_finale(a) ==
    /\ Pop(a, "stampare_risultato_finale")
    /\ \/ /\ Concludi(<<Fatto("azione", "termina")>>,
                      Dettagli(a, NessunaAlternativa), agenda \ {a})
          /\ UNCHANGED <<ingredienti_disponibili, candidati_lista>>
       \/ /\ Attendi(a, "ask_alternativa",
                     Append(Dettagli(a, Alternativa), Prompt("alternativa")))
          /\ UNCHANGED <<ingredienti_disponibili, candidati_lista>>

\* "Vuoi vederne i dettagli? (s/n)": with 's' the details of the alternative
\* are looked up and printed; either way azione=termina is declared
input_alternativa(risposta) ==
    /\ pc = "ask_alternativa"
    /\ IF risposta \in {"s", "n"}
       THEN /\ Concludi(<<Fatto("azione", "termina")>>, log, agenda)
            /\ UNCHANGED <<ingredienti_disponibili, candidati_lista>>
       ELSE Ripeti

\* variant: the last rule clears the fact list
terminare_esecuzione_con_reset(a) ==
    /\ Pop(a, "terminare_esecuzione")
    /\ facts' = FattiIniziali
    /\ memory' = Matches(facts')
    /\ agenda' = {}
    /\ log' = Append(log, Fired(a))
    /\ pc' = "run"
    /\ cur' = NoAct
    /\ retries' = 0
    /\ UNCHANGED <<ingredienti_disponibili, candidati_lista>>

terminare_esecuzione(a) ==
    /\ Pop(a, "terminare_esecuzione")
    /\ Concludi(<<>>, Append(log, Fired(a)), agenda \ {a})
    /\ UNCHANGED <<ingredienti_disponibili, candidati_lista>>

\* run(): get_next() returns None, the loop ends and run() returns to main
Quiescenza ==
    /\ pc = "run"
    /\ agenda = {}
    /\ pc' = "ask_nuova"
    /\ UNCHANGED <<facts, memory, agenda, cur, log, retries,
                   ingredienti_disponibili, candidati_lista>>

\* main(): "Vuoi avviare una nuova consulenza? (s/n)"
input_nuova(risposta) ==
    /\ pc = "ask_nuova"
    /\ IF risposta = "s"
       THEN /\ facts' = FattiIniziali
            /\ memory' = Matches(FattiIniziali)
            /\ agenda' = Matches(FattiIniziali)
            /\ pc' = "run"
            /\ cur' = NoAct
            /\ log' = <<>>
            /\ retries' = 0
            /\ UNCHANGED <<ingredienti_disponibili, candidati_lista>>
       ELSE IF risposta = "n"
       THEN /\ pc' = "exit"
            /\ retries' = 0
            /\ UNCHANGED <<facts, memory, agenda, cur, log,
                           ingredienti_disponibili, candidati_lista>>
       ELSE Ripeti

\* run(): while self.running: pop the next activation and run its rule ...
Fire ==
    \E a \in Top(agenda) :
        \/ chiedi_ingredienti(a)
        \/ chiedi_tempo(a)
        \/ chiedi_preferenze(a)
        \/ suggerisci_pasta_pomodoro(a)
        \/ suggerisci_uova_strapazzate(a)
        \/ suggerisci_insalata(a)
        \/ scegli_candidati(a)
        \/ nessuna_ricetta_trovata(a)
        \/ valuta_ricetta_con_bayes(a)
        \/ stampare_risultato_finale(a)
        \/ terminare_esecuzione(a)

\* ... or the user answers the input() the program is blocked on
Next ==
    \/ pc = "run" /\ Fire
    \/ pc = "run" /\ Quiescenza
    \/ pc = "ask_ingredienti" /\ \E risposta \in RisposteIngredienti :
                                    chiedi_ingredienti_disponibili(risposta)
    \/ pc = "ask_tempo" /\ \E risposta \in RisposteTempo : chiedi_tempo_disponibile(risposta)
    \/ pc = "ask_preferenze" /\ \E risposta \in RispostePreferenze :
                                   chiedi_preferenze_alimentari(risposta)
    \/ pc = "ask_scelta" /\ \E risposta \in RisposteScelta : input_scelta(risposta)
    \/ pc = "ask_rete" /\ \E risposta \in {"1", "2", "x"} : input_rete(risposta)
    \/ pc = "ask_alternativa" /\ \E risposta \in {"s", "n", "x"} : input_alternativa(risposta)
    \/ pc = "ask_nuova" /\ \E risposta \in {"s", "n", "x"} : input_nuova(risposta)

Spec == Init /\ [][Next]_vars

---------------------------------------------------------------------------
(* Termination: the run loop is never suspended for ever.  Every prompt    *)
(* gets an answer and every collaborator call returns, so a step that is    *)
(* possible is eventually taken; invalid answers are bounded by MaxRetry.   *)

LiveSpec == Init /\ [][Next]_vars /\ WF_vars(Next)

---------------------------------------------------------------------------
(* Retraction.  No rule action of ConsulenteRicette retracts a fact; the    *)
(* fact store contract offers retract(fact), and NegSpec adds it to the     *)
(* program, for a candidato fact at the head of the run loop, to observe    *)
(* the conditions of the rules when a fact goes away.                       *)

MaxRetract == 1

\* what is left in the place of a retracted fact: its fact id is not reused
Ritirato == Fatto("retracted", "")

retract(i) ==
    /\ pc = "run"
    /\ i \in IdxAny(facts, "candidato")
    /\ Cardinality(IdxAny(facts, "retracted")) < MaxRetract
    /\ facts' = [facts EXCEPT ![i] = Ritirato]
    /\ memory' = Matches(facts')
    /\ agenda' = UpdateAgenda(memory, memory', agenda)
    /\ UNCHANGED <<pc, cur, log, retries, ingredienti_disponibili, candidati_lista>>

NextNeg ==
    \/ Next
    \/ pc = "run" /\ \E i \in 1..Len(facts) : retract(i)

NegSpec == Init /\ [][NextNeg]_vars

---------------------------------------------------------------------------
(* Errors.  The collaborators catch their own failures, with one exception: *)
(* trova_dettagli_ricetta_in_ontologia searches the loaded ontology and     *)
(* reads the individual outside any try block.  An exception raised there   *)
(* leaves stampare_risultato_finale, run() and avvia_consulente_ricette();  *)
(* main() catches it, logs it and goes on to its own prompt.  ErrSpec is    *)
(* the program with such a failure possible.                                *)

stampare_risultato_finale_errore(a) ==
    /\ Pop(a, "stampare_risultato_finale")
    /\ Solleva(a, Dettagli(a, NessunaAlternativa))
    /\ UNCHANGED <<ingredienti_disponibili, candidati_lista>>

NextErr ==
    \/ Next
    \/ pc = "run" /\ \E a \in Top(agenda) : stampare_risultato_finale_errore(a)

ErrSpec == Init /\ [][NextErr]_vars

---------------------------------------------------------------------------
(* Reading the history *)

Firings(r) == {i \in 1..Len(log) : log[i].kind = "fire" /\ log[i].name = r}

AllFirings == {i \in 1..Len(log) : log[i].kind = "fire"}

Prompts(name) == {i \in 1..Len(log) : log[i].kind = "prompt" /\ log[i].name = name}

Calls(name) == {i \in 1..Len(log) : log[i].kind = "call" /\ log[i].name = name}

Errors == {i \in 1..Len(log) : log[i].kind = "error"}

Dups(f, v) == {i \in 1..Len(log) : log[i].kind = "dup" /\ log[i].name = f /\ log[i].val = v}

Has(f, v) == Present(facts, Fatto(f, v))

\* the step fires an activation: a "fire" entry is the first one it adds
FireStep == Len(log') > Len(log) /\ log'[Len(log) + 1].kind = "fire"

FiredAct == Act(log'[Len(log) + 1].name, log'[Len(log) + 1].ids)

---------------------------------------------------------------------------
(* C1 - Refraction: an activation (rule, matched facts) that has fired is   *)
(* never on the agenda again and never fires a second time in the           *)
(* consultation, although its supporting facts stay in the fact list.       *)

C1_Refraction ==
    /\ \A i, j \in AllFirings :
          (log[i].name = log[j].name /\ log[i].ids = log[j].ids) => i = j
    /\ \A i \in AllFirings : Act(log[i].name, log[i].ids) \notin agenda
    /\ \A i \in AllFirings : \A k \in log[i].ids : k <= Len(facts)

\* the consultation is over, chiedi_ingredienti fired once and its
\* activation still matches (azione=chiediIngredienti is still a fact)
C1_Witness ==
    /\ pc = "ask_nuova"
    /\ Has("azione", "chiediIngredienti") /\ Has("azione", "trovaRicetta")
    /\ Cardinality(Firings("chiedi_ingredienti")) = 1
    /\ Cond_chiedi_ingredienti(facts) \subseteq memory \ agenda
    /\ Cond_chiedi_ingredienti(facts) # {}

---------------------------------------------------------------------------
(* C2 - With two candidato facts the candidates are presented for manual    *)
(* selection exactly once: scegli_candidati fires once and the selection    *)
(* prompt is issued once.                                                   *)

C2_SelectionOnce ==
    Cardinality(IdxAny(facts, "candidato")) = 2 =>
        /\ Cardinality(Firings("scegli_candidati")) <= 1
        /\ Cardinality(Prompts("scegli_candidati")) <= 1

---------------------------------------------------------------------------
(* C3 - Once azione=termina has been asserted nothing that was waiting on   *)
(* the agenda fires and no prompt or collaborator call is made: every       *)
(* later entry of the history is the firing of terminare_esecuzione.        *)

C3_HaltOnTermina ==
    \A i \in 1..Len(log) :
        (log[i].kind \in {"fire", "prompt", "call"}
         /\ \E k \in 1..log[i].at : facts[k] = Fatto("azione", "termina"))
        => (log[i].kind = "fire" /\ log[i].name = "terminare_esecuzione")

---------------------------------------------------------------------------
(* C4 - Salience ordering: the activation that fires has a salience no      *)
(* lower than any activation on the agenda at that time, and the rules of   *)
(* a consultation fire in order of descending salience (ask rules,          *)
(* candidate rules, scegli_candidati, nessuna_ricetta_trovata,              *)
(* valuta_ricetta_con_bayes, stampare_risultato_finale,                     *)
(* terminare_esecuzione).                                                   *)

C4_FiresHighest ==
    FireStep => /\ FiredAct \in agenda
                /\ \A b \in agenda : Salience(b.rule) <= Salience(FiredAct.rule)

C4_Descending ==
    \A i, j \in AllFirings : i < j => Salience(log[i].name) >= Salience(log[j].name)

C4_SalienceOrder == [][C4_FiresHighest]_vars /\ []C4_Descending

\* scegli_candidati (0.5) has just fired a second time while an activation of
\* valuta_ricetta_con_bayes (-0.5) was waiting, and that one still waits
C4_Witness ==
    /\ pc \in {"run", "ask_scelta"}
    /\ Cardinality(Firings("scegli_candidati")) = 2
    /\ log[Len(log)].name = "scegli_candidati"
    /\ \E b \in agenda : b.rule = "valuta_ricetta_con_bayes"

---------------------------------------------------------------------------
(* C5 - Termination: every consultation reaches quiescence (run() returns   *)
(* with an empty agenda) after at most 14 rule firings, and azione=termina  *)
(* is then in the fact list.                                                *)

C5_Quiescent == pc = "ask_nuova" => (agenda = {} /\ Has("azione", "termina"))

C5_Bounded == Cardinality(AllFirings) <= 14

C5_Termination ==
    /\ []C5_Quiescent
    /\ []C5_Bounded
    /\ (pc \notin {"ask_nuova", "exit"}) ~> (pc = "ask_nuova")

\* a consultation that ended after the greatest number of firings
C5_Witness ==
    /\ pc = "ask_nuova"
    /\ Cardinality(AllFirings) = 14
    /\ Has("azione", "termina")

---------------------------------------------------------------------------
(* C6 - Negation: an activation of nessuna_ricetta_trovata is on the agenda *)
(* only with azione=trovaRicetta and no candidato fact; it leaves the       *)
(* agenda in the step that asserts a candidato fact and it is back on the   *)
(* agenda in the step that retracts the last candidato fact.                *)

Nessuna(ag) == {a \in ag : a.rule = "nessuna_ricetta_trovata"}

C6_OnlyWithout ==
    Nessuna(agenda) # {} =>
        (Has("azione", "trovaRicetta") /\ IdxAny(facts, "candidato") = {})

C6_Disappears ==
    (IdxAny(facts, "candidato") = {} /\ IdxAny(facts', "candidato") # {})
        => Nessuna(agenda') = {}

C6_Reappears ==
    (IdxAny(facts, "candidato") # {} /\ IdxAny(facts', "candidato") = {}
     /\ Present(facts', Fatto("azione", "trovaRicetta")))
        => Nessuna(agenda') # {}

C6_Negation == []C6_OnlyWithout /\ [][C6_Disappears /\ C6_Reappears]_vars

\* a candidate rule fired (the activation had left the agenda), the only
\* candidato fact was retracted and the activation is on the agenda again
C6_Witness ==
    /\ \E r \in RegoleCandidato : Firings(r) # {}
    /\ IdxAny(facts, "retracted") # {}
    /\ IdxAny(facts, "candidato") = {}
    /\ Nessuna(agenda) # {}

---------------------------------------------------------------------------
(* C7 - No duplicate facts: no two facts of the fact list have the same     *)
(* content; a declare of a fact already present (recorded as "dup") found   *)
(* that fact in the list and added nothing, and declaring any present fact  *)
(* again leaves the fact list and the agenda as they are.                   *)

C7_Distinct == \A i, j \in 1..Len(facts) : facts[i] = facts[j] => i = j

C7_DupWasPresent ==
    \A i \in 1..Len(log) :
        log[i].kind = "dup" =>
            \E k \in 1..log[i].at : facts[k] = Fatto(log[i].name, log[i].val)

C7_Redeclare ==
    /\ \A k \in 1..Len(facts) : Declare(facts, log, <<facts[k]>>).facts = facts
    /\ UpdateAgenda(memory, Matches(facts), agenda) = agenda

C7_NoDuplicates == C7_Distinct /\ C7_DupWasPresent /\ C7_Redeclare

\* an ingredient was given twice: the second declare added nothing
C7_Witness ==
    /\ \E v \in {"pasta", "pomodoro", "uova", "lattuga"} : Dups("ingrediente", v) # {}
    /\ pc = "ask_nuova"

---------------------------------------------------------------------------
(* C8 - Single candidate: with ingrediente=pasta, ingrediente=pomodoro,     *)
(* tempo_disponibile=medio and azione=trovaRicetta the rules fire in the    *)
(* order suggerisci_pasta_pomodoro (once, asserting candidato=Pasta al      *)
(* Pomodoro), scegli_candidati (no prompt, asserting ricetta_suggerita=     *)
(* Pasta al Pomodoro), valuta_ricetta_con_bayes (one call of the            *)
(* evaluator), stampare_risultato_finale (asserting azione=termina).        *)

IsFire(e) == e.kind = "fire"

NomiFired == LET fs == SelectSeq(log, IsFire) IN [i \in 1..Len(fs) |-> fs[i].name]

IsPrefix(s, t) == Len(s) <= Len(t) /\ \A i \in 1..Len(s) : s[i] = t[i]

Scenario8 ==
    /\ Has("ingrediente", "pasta") /\ Has("ingrediente", "pomodoro")
    /\ Has("tempo_disponibile", "medio") /\ Has("azione", "trovaRicetta")

Ordine8 ==
    <<"chiedi_ingredienti", "chiedi_tempo", "chiedi_preferenze",
      "suggerisci_pasta_pomodoro", "scegli_candidati", "valuta_ricetta_con_bayes",
      "stampare_risultato_finale", "terminare_esecuzione">>

IdOf(f, v) == CHOOSE k \in 1..Len(facts) : facts[k] = Fatto(f, v)

C8_SingleCandidate ==
    Scenario8 =>
        /\ IsPrefix(NomiFired, Ordine8)
        /\ Prompts("scegli_candidati") = {}
        /\ pc = "ask_nuova" =>
              /\ NomiFired = Ordine8
              /\ ValoriDi(facts, "candidato") = <<"Pasta al Pomodoro">>
              /\ ValoriDi(facts, "ricetta_suggerita") = <<"Pasta al Pomodoro">>
              /\ Cardinality(Calls("calcola_rischio_o_successo_ricetta")) = 1
              /\ \A e \in Calls("calcola_rischio_o_successo_ricetta") :
                    /\ log[e].val = "Pasta al Pomodoro"
                    /\ IdOf("candidato", "Pasta al Pomodoro")
                          < IdOf("ricetta_suggerita", "Pasta al Pomodoro")
                    /\ IdOf("ricetta_suggerita", "Pasta al Pomodoro") <= log[e].at
                    /\ log[e].at < IdOf("azione", "termina")

C8_Witness ==
    /\ Scenario8
    /\ pc = "ask_nuova"
    /\ NomiFired = Ordine8
    /\ Has("ricetta_suggerita", "Pasta al Pomodoro")

---------------------------------------------------------------------------
(* C9 - Fallback: when the ingredient and time facts satisfy no candidate   *)
(* rule, no ricetta_suggerita fact ever exists and the evaluator is never   *)
(* called; nessuna_ricetta_trovata fires exactly once, calls                *)
(* cerca_ricette_parziali once with the user's ingredients and asserts      *)
(* azione=termina.                                                          *)

NessunCandidato(F) ==
    Cond_suggerisci_pasta_pomodoro(F) \cup Cond_suggerisci_uova_strapazzate(F)
        \cup Cond_suggerisci_insalata(F) = {}

C9_Fallback ==
    NessunCandidato(facts) =>
        /\ IdxAny(facts, "ricetta_suggerita") = {}
        /\ Calls("calcola_rischio_o_successo_ricetta") = {}
        /\ Firings("scegli_candidati") = {}
        /\ Cardinality(Firings("nessuna_ricetta_trovata")) <= 1
        /\ (pc = "ask_nuova" /\ Has("azione", "trovaRicetta")) =>
              /\ Cardinality(Firings("nessuna_ricetta_trovata")) = 1
              /\ Cardinality(Calls("cerca_ricette_parziali")) = 1
              /\ \A e \in Calls("cerca_ricette_parziali") :
                    /\ Range(log[e].arg) = Range(ingredienti_disponibili)
                    /\ log[e].arg # <<>>
                    /\ log[e].at < IdOf("azione", "termina")
              /\ Has("azione", "termina")

C9_Witness ==
    /\ pc = "ask_nuova"
    /\ Has("azione", "trovaRicetta")
    /\ NessunCandidato(facts)
    /\ Cardinality(Firings("nessuna_ricetta_trovata")) = 1
    /\ Cardinality(Calls("cerca_ricette_parziali")) = 1

---------------------------------------------------------------------------
(* C10 - Manual selection: an answer that is not a number of the list        *)
(* (1..len) asserts nothing and leaves the engine at the same prompt, and   *)
(* every ricetta_suggerita fact has the value of a candidato fact.          *)

InRange(risposta, n) == risposta.int /\ risposta.n \in 1..n

C10_InvalidAssertsNothing ==
    pc = "ask_scelta" =>
        \A risposta \in RisposteScelta :
            ~InRange(risposta, Len(candidati_lista)) =>
                ~ENABLED (input_scelta(risposta) /\ (facts' # facts \/ pc' # pc))

C10_SuggestedIsCandidate ==
    \A i \in IdxAny(facts, "ricetta_suggerita") :
        \E k \in IdxAny(facts, "candidato") : facts[k].v = facts[i].v

C10_ValidSelection == C10_InvalidAssertsNothing /\ C10_SuggestedIsCandidate

\* the user gave an invalid answer and is asked again, nothing was asserted
C10_Witness ==
    /\ pc = "ask_scelta"
    /\ retries >= 1
    /\ IdxAny(facts, "ricetta_suggerita") = {}
    /\ Len(candidati_lista) = 2

---------------------------------------------------------------------------
(* C11 - Evaluator failure is recoverable: every call of the evaluator that *)
(* has returned was followed by the declare of a valutazione_ricetta fact   *)
(* and of azione=stampaRisultato, no error leaves the rule, and once the    *)
(* fact carries a fallback message the consultation goes on to assert       *)
(* azione=termina.  A failure of the dataset learning alone is different:   *)
(* the evaluator goes on with the network it created, so the fact may carry *)
(* an estimate.                                                             *)

Fallback == {NonDisponibile, Impossibile}

Evaluator == "calcola_rischio_o_successo_ricetta"

\* the call recorded at log[e] has returned
Returned(e) == ~(pc = "ask_rete" /\ \A e2 \in Calls(Evaluator) : e2 <= e)

Redeclared(e) ==
    {d \in (e + 1)..Len(log) : log[d].kind = "dup" /\ log[d].name = "valutazione_ricetta"
                                  /\ log[d].at = log[e].at}

\* the first declare after log[e] was of a valutazione_ricetta fact: a new
\* fact, or one already present
Declared(e) ==
    \/ Len(facts) > log[e].at /\ facts[log[e].at + 1].f = "valutazione_ricetta"
    \/ Redeclared(e) # {}

\* the value of that declare
ValDeclared(e) ==
    IF Redeclared(e) # {} THEN log[CHOOSE d \in Redeclared(e) : TRUE].val
    ELSE facts[log[e].at + 1].v

HasFallback == \E v \in Fallback : Has("valutazione_ricetta", v)

LearningFailed == {d \in Calls("impara_dataset") : log[d].val = "fallito"}

C11_Asserted ==
    /\ \A e \in Calls(Evaluator) :
          Returned(e) => (Declared(e) /\ Has("azione", "stampaRisultato"))
    /\ \A d \in LearningFailed : Declared(d) /\ ValDeclared(d) \in Fallback \cup {Stima}
    /\ Errors = {}

C11_Recoverable == []C11_Asserted /\ (HasFallback ~> Has("azione", "termina"))

\* the statement with the failure of the dataset learning among the cases
\* that end in a fallback message
C11_LearningFailureIsFallback ==
    \A d \in LearningFailed : ValDeclared(d) \in Fallback

\* the evaluator gave only fallback messages, one of them after a failed
\* dataset learning, and the consultation came to its end
C11_Witness ==
    /\ pc = "ask_nuova"
    /\ HasFallback
    /\ LearningFailed # {}
    /\ ~Has("valutazione_ricetta", Stima)
    /\ Has("azione", "stampaRisultato")
    /\ Has("azione", "termina")
    /\ Firings("terminare_esecuzione") # {}

---------------------------------------------------------------------------
(* C12 - A fatal error ends only the current consultation: the error is the *)
(* last entry of the consultation's history (no rule fires after it and the *)
(* failed activation is not put back on the agenda), the program is then at *)
(* the prompt of main() or has left, and the answer 's' to that prompt      *)
(* starts a new consultation from the initial facts.                        *)

C12_ErrorIsLast ==
    \A i \in Errors :
        /\ i = Len(log)
        /\ Act(log[i].name, log[i].ids) \notin agenda
        /\ pc \in {"ask_nuova", "exit"}

C12_Restart ==
    (pc = "ask_nuova" /\ Errors # {}) =>
        /\ ENABLED (input_nuova("s") /\ pc' = "run" /\ facts' = FattiIniziali
                                     /\ agenda' = Matches(FattiIniziali) /\ log' = <<>>)
        /\ ~ENABLED (input_nuova("s") /\ (pc' # "run" \/ facts' # FattiIniziali))

C12_FatalError == C12_ErrorIsLast /\ C12_Restart

\* the detail lookup raised in a firing of stampare_risultato_finale while
\* other activations were waiting, and the program is at the prompt of main()
C12_Witness ==
    /\ pc = "ask_nuova"
    /\ Errors # {}
    /\ agenda # {}
    /\ ~Has("azione", "termina")

---------------------------------------------------------------------------
(* C13 - Malformed time input: while chiedi_tempo waits at the time prompt  *)
(* there is no tempo_disponibile fact; an answer that is not a positive     *)
(* integer changes neither the fact list nor the agenda nor the history and *)
(* leaves the program at the same prompt of the same firing (no error       *)
(* reaches the engine); a positive integer is accepted and asserts the      *)
(* tempo_disponibile fact of its category.                                  *)

Positivo(risposta) == risposta.int /\ risposta.n >= 1

C13_Rejected ==
    pc = "ask_tempo" =>
        \A risposta \in RisposteTempo :
            ~Positivo(risposta) =>
                ~ENABLED (chiedi_tempo_disponibile(risposta)
                          /\ (facts' # facts \/ agenda' # agenda \/ log' # log
                              \/ pc' # "ask_tempo" \/ cur' # cur))

C13_Accepted ==
    pc = "ask_tempo" =>
        /\ IdxAny(facts, "tempo_disponibile") = {}
        /\ cur.rule = "chiedi_tempo"
        /\ \A risposta \in RisposteTempo :
              Positivo(risposta) =>
                  /\ ENABLED (chiedi_tempo_disponibile(risposta)
                              /\ Present(facts', Fatto("tempo_disponibile",
                                                        converti_tempo_in_categoria(risposta.n))))
                  /\ ~ENABLED (chiedi_tempo_disponibile(risposta)
                               /\ Cardinality(IdxAny(facts', "tempo_disponibile")) # 1)

C13_TimeReprompt == C13_Rejected /\ C13_Accepted

\* an answer was rejected and the same question is open, nothing asserted
C13_Witness ==
    /\ pc = "ask_tempo"
    /\ retries >= 1
    /\ IdxAny(facts, "tempo_disponibile") = {}
    /\ Cardinality(Prompts("chiedi_tempo_disponibile")) = 1

---------------------------------------------------------------------------
(* C14 - One rule action at a time: while the action of an activation waits *)
(* for a collaborator (cur is that activation) no activation can fire and   *)
(* the activation is not on the agenda; a step taken meanwhile adds no      *)
(* firing to the history, and it changes the fact list or the agenda only   *)
(* by ending that action, with the run loop resumed afterwards.             *)

Outstanding == cur # NoAct

C14_Blocked ==
    Outstanding =>
        /\ ~ENABLED Fire
        /\ cur \notin agenda
        /\ AllFirings # {}
        /\ \A i \in AllFirings :
              (\A j \in AllFirings : j <= i) => Act(log[i].name, log[i].ids) = cur

C14_Returns ==
    Outstanding =>
        /\ ~FireStep
        /\ (facts' # facts \/ agenda' # agenda) => (cur' = NoAct /\ pc' = "run")
        /\ cur' \in {cur, NoAct}

C14_OneAtATime == []C14_Blocked /\ [][C14_Returns]_vars

\* the evaluator waits for the answer about the network while another
\* activation of valuta_ricetta_con_bayes waits on the agenda
C14_Witness ==
    /\ pc = "ask_rete"
    /\ cur.rule = "valuta_ricetta_con_bayes"
    /\ \E b \in agenda : b.rule = "valuta_ricetta_con_bayes"

---------------------------------------------------------------------------
(* C15 - Collaborator calls run once per firing: in the history every       *)
(* firing of valuta_ricetta_con_bayes is followed at once by one call of    *)
(* the evaluator for the recipe of the activation, every firing of          *)
(* chiedi_ingredienti, chiedi_tempo and chiedi_preferenze by one call of    *)
(* its prompt, there are no other calls of these collaborators, and no two  *)
(* calls of the evaluator are for the same recipe.                          *)

PromptOf(r) ==
    CASE r = "chiedi_ingredienti" -> "chiedi_ingredienti_disponibili"
      [] r = "chiedi_tempo"       -> "chiedi_tempo_disponibile"
      [] r = "chiedi_preferenze"  -> "chiedi_preferenze_alimentari"

C15_Evaluator ==
    /\ \A i \in Firings("valuta_ricetta_con_bayes") :
          /\ i + 1 \in Calls(Evaluator)
          /\ \E k \in log[i].ids : facts[k] = Fatto("ricetta_suggerita", log[i + 1].val)
    /\ \A e \in Calls(Evaluator) : e - 1 \in Firings("valuta_ricetta_con_bayes")

C15_Prompts ==
    \A r \in {"chiedi_ingredienti", "chiedi_tempo", "chiedi_preferenze"} :
        /\ \A i \in Firings(r) : i + 1 \in Prompts(PromptOf(r))
        /\ \A e \in Prompts(PromptOf(r)) : e - 1 \in Firings(r)

C15_OncePerRecipe ==
    \A e1, e2 \in Calls(Evaluator) : log[e1].val = log[e2].val => e1 = e2

C15_OncePerFiring == C15_Evaluator /\ C15_Prompts /\ C15_OncePerRecipe

\* two recipes were chosen and the evaluator was called once for each
C15_Witness ==
    /\ pc = "ask_nuova"
    /\ Cardinality(IdxAny(facts, "ricetta_suggerita")) = 2
    /\ Cardinality(Calls(Evaluator)) = 2
    /\ Cardinality(Firings("valuta_ricetta_con_bayes")) = 2

---------------------------------------------------------------------------
(* C16 - Tie-break among equal salience: when suggerisci_uova_strapazzate   *)
(* and suggerisci_insalata are both activated, the one whose matched facts  *)
(* are the more recent fires first: suggerisci_uova_strapazzate fires       *)
(* before suggerisci_insalata exactly when uova was listed after lattuga    *)
(* and after pomodoro.                                                      *)

Uova == "suggerisci_uova_strapazzate"

Insalata == "suggerisci_insalata"

BothActivated ==
    /\ Cond_suggerisci_uova_strapazzate(facts) # {}
    /\ Cond_suggerisci_insalata(facts) # {}
    /\ Firings(Uova) \cup Firings(Insalata) # {}

UovaFirst == \E i \in Firings(Uova) : \A j \in Firings(Insalata) : i < j

UovaListedLast ==
    /\ IdOf("ingrediente", "uova") > IdOf("ingrediente", "lattuga")
    /\ IdOf("ingrediente", "uova") > IdOf("ingrediente", "pomodoro")

C16_TieBreakByRecency == BothActivated => (UovaFirst <=> UovaListedLast)

\* the statement with the declaration order of the rules as the tie-break
C16_TieBreakByDeclaration == BothActivated => UovaFirst

\* uova was listed first and suggerisci_insalata fired before
\* suggerisci_uova_strapazzate
C16_Witness ==
    /\ BothActivated
    /\ Firings(Uova) # {} /\ Firings(Insalata) # {}
    /\ ~UovaFirst
    /\ IdOf("ingrediente", "uova") < IdOf("ingrediente", "lattuga")
    /\ IdOf("ingrediente", "uova") < IdOf("ingrediente", "pomodoro")

---------------------------------------------------------------------------
(* C17 - Determinism: the next activation is determined by the agenda, and  *)
(* the list from which the user selects is determined by the facts, so that *)
(* the same selection number from the same candidato facts gives the same   *)
(* ricetta_suggerita.                                                       *)

Candidati == Range(ValoriDi(facts, "candidato"))

C17_UniqueNext == pc = "run" => Cardinality(Top(agenda)) <= 1

C17_SameList ==
    pc = "run" =>
        \A l1, l2 \in Permutazioni(Candidati) :
            (/\ ENABLED (Fire /\ pc' = "ask_scelta" /\ candidati_lista' = l1)
             /\ ENABLED (Fire /\ pc' = "ask_scelta" /\ candidati_lista' = l2))
            => \A n \in 1..Len(l1) : Elemento(l1, n) = Elemento(l2, n)

C17_Determinism == C17_UniqueNext /\ C17_SameList

---------------------------------------------------------------------------
(* C18 - The fact list only grows during a consultation: every step other   *)
(* than the start of a new consultation keeps every fact, with its fact id, *)
(* and the seed azione=chiediIngredienti is always present.                 *)

NuovaConsulenza == pc = "ask_nuova" /\ pc' = "run"

C18_Grows == NuovaConsulenza \/ IsPrefix(facts, facts')

C18_Seed == Len(facts) >= 2 /\ facts[1] = InitialFact
            /\ facts[2] = Fatto("azione", "chiediIngredienti")

C18_Monotone == [][C18_Grows]_vars /\ []C18_Seed

Stadi == {"chiediIngredienti", "chiediTempo", "chiediPreferenze", "trovaRicetta",
          "valutaRicetta", "stampaRisultato", "termina"}

\* a consultation went through every stage and every stage fact is there
C18_Witness ==
    /\ pc = "ask_nuova"
    /\ \A v \in Stadi : Has("azione", v)
    /\ Firings("terminare_esecuzione") # {}

---------------------------------------------------------------------------
(* C19 - Only rule actions change the fact list: a step after which a       *)
(* collaborator call is outstanding (the call was made, or it rejected an   *)
(* answer) leaves the fact list and the matcher memory as they are; every   *)
(* step that adds facts is the action of a firing rule, running from its    *)
(* firing or resumed after its collaborator returned, and it adds only      *)
(* facts that this rule declares.                                           *)

Candidato(r) ==
    CASE r = "suggerisci_pasta_pomodoro"   -> "Pasta al Pomodoro"
      [] r = "suggerisci_uova_strapazzate" -> "Uova Strapazzate"
      [] r = "suggerisci_insalata"         -> "Insalata Mista"

\* the facts the action of rule r declares
DeclaredBy(r, fatto) ==
    CASE r = "chiedi_ingredienti" ->
            fatto.f = "ingrediente" \/ fatto \in {Fatto("azione", "chiediTempo"),
                                                  Fatto("azione", "termina")}
      [] r = "chiedi_tempo" ->
            fatto.f = "tempo_disponibile" \/ fatto = Fatto("azione", "chiediPreferenze")
      [] r = "chiedi_preferenze" ->
            fatto.f = "preferenza" \/ fatto = Fatto("azione", "trovaRicetta")
      [] r \in RegoleCandidato -> fatto = Fatto("candidato", Candidato(r))
      [] r = "scegli_candidati" ->
            fatto.f = "ricetta_suggerita" \/ fatto = Fatto("azione", "valutaRicetta")
      [] r = "valuta_ricetta_con_bayes" ->
            fatto.f = "valutazione_ricetta" \/ fatto = Fatto("azione", "stampaRisultato")
      [] r \in {"nessuna_ricetta_trovata", "stampare_risultato_finale"} ->
            fatto = Fatto("azione", "termina")
      [] OTHER -> FALSE

C19_CollaboratorFrame == cur' # NoAct => (facts' = facts /\ memory' = memory)

C19_DeclaredInAction ==
    (facts' # facts /\ ~NuovaConsulenza) =>
        /\ FireStep \/ cur # NoAct
        /\ IsPrefix(facts, facts')
        /\ LET r == IF cur # NoAct THEN cur.rule ELSE FiredAct.rule IN
           \A k \in (Len(facts) + 1)..Len(facts') : DeclaredBy(r, facts'[k])

C19_OnlyActions == [][C19_CollaboratorFrame /\ C19_DeclaredInAction]_vars

\* the evaluator rejected an answer to its question: the fact list is the
\* one of the moment it was called
C19_Witness ==
    /\ pc = "ask_rete"
    /\ retries >= 1
    /\ log[Len(log)].kind = "prompt"
    /\ Len(facts) = log[Len(log)].at
    /\ memory = Matches(facts)

---------------------------------------------------------------------------
(* C20 - An absent knowledge-base match is not an error: a detail lookup    *)
(* without an alternative is followed by no question about one and by the   *)
(* declare of azione=termina in the same action, a lookup with an           *)
(* alternative by that question; every firing of nessuna_ricetta_trovata,   *)
(* whatever its partial-match lookup found, is followed by the declare of   *)
(* azione=termina.                                                          *)

Lookups == Calls("trova_dettagli_ricetta_in_ontologia")

\* the first declare after log[e] was of azione=termina, new or present
TerminaDeclared(e) ==
    \/ Len(facts) > log[e].at /\ facts[log[e].at + 1] = Fatto("azione", "termina")
    \/ \E d \in (e + 1)..Len(log) :
          /\ log[d].kind = "dup" /\ log[d].name = "azione" /\ log[d].val = "termina"
          /\ log[d].at = log[e].at

C20_Details ==
    \A e \in Lookups :
        /\ e - 1 \in Firings("stampare_risultato_finale")
        /\ log[e].arg = NessunaAlternativa =>
              (e + 1 \notin Prompts("alternativa") /\ TerminaDeclared(e))
        /\ log[e].arg # NessunaAlternativa =>
              /\ e + 1 \in Prompts("alternativa")
              /\ TerminaDeclared(e) \/ (pc = "ask_alternativa" /\ e + 1 = Len(log))

C20_Partial ==
    \A i \in Firings("nessuna_ricetta_trovata") :
        /\ TerminaDeclared(i)
        /\ \A e \in Calls("cerca_ricette_parziali") : e = i + 1

---------------------------------------------------------------------------
(* C21 - Stage order: the firings of a consultation go through the stages   *)
(* chiedi_ingredienti, chiedi_tempo, chiedi_preferenze, candidate rules,    *)
(* scegli_candidati or nessuna_ricetta_trovata, valuta_ricetta_con_bayes,   *)
(* stampare_risultato_finale, terminare_esecuzione without ever going back; *)
(* each stage after the first follows a firing of the stage it depends on,  *)
(* and a candidate rule fires only after chiedi_preferenze.                 *)

Stadio(r) ==
    CASE r = "chiedi_ingredienti"        -> 1
      [] r = "chiedi_tempo"              -> 2
      [] r = "chiedi_preferenze"         -> 3
      [] r \in RegoleCandidato           -> 4
      [] r = "scegli_candidati"          -> 5
      [] r = "nessuna_ricetta_trovata"   -> 5
      [] r = "valuta_ricetta_con_bayes"  -> 6
      [] r = "stampare_risultato_finale" -> 7
      [] r = "terminare_esecuzione"      -> 8

\* every firing of rule r comes after a firing of rule q
After(r, q) == \A j \in Firings(r) : \E i \in Firings(q) : i < j

C21_NoGoingBack ==
    \A i, j \in AllFirings : i < j => Stadio(log[i].name) <= Stadio(log[j].name)

C21_Depends ==
    /\ After("chiedi_tempo", "chiedi_ingredienti")
    /\ After("chiedi_preferenze", "chiedi_tempo")
    /\ \A r \in RegoleCandidato \cup {"nessuna_ricetta_trovata"} :
          After(r, "chiedi_preferenze")
    /\ \A j \in Firings("scegli_candidati") :
          \E i \in AllFirings : i < j /\ log[i].name \in RegoleCandidato
    /\ After("valuta_ricetta_con_bayes", "scegli_candidati")
    /\ After("stampare_risultato_finale", "valuta_ricetta_con_bayes")
    /\ Firings("scegli_candidati") = {} \/ Firings("nessuna_ricetta_trovata") = {}

C21_StageOrder == C21_NoGoingBack /\ C21_Depends

\* a consultation with two candidate rules went through every stage
C21_Witness ==
    /\ pc = "ask_nuova"
    /\ Firings(Uova) # {} /\ Firings(Insalata) # {}
    /\ \A r \in {"chiedi_ingredienti", "chiedi_tempo", "chiedi_preferenze",
                  "scegli_candidati", "valuta_ricetta_con_bayes",
                  "stampare_risultato_finale", "terminare_esecuzione"} : Firings(r) # {}

---------------------------------------------------------------------------
(* C22 - Empty ingredient list: once the ingredient prompt has returned an  *)
(* empty list the fact list is the initial facts and azione=termina, no     *)
(* other prompt is issued and no collaborator is called, and the firings    *)
(* of the consultation are chiedi_ingredienti and then terminare_esecuzione *)
(* alone.                                                                   *)

ListaVuota ==
    /\ Firings("chiedi_ingredienti") # {}
    /\ pc # "ask_ingredienti"
    /\ ingredienti_disponibili = <<>>

C22_EmptyList ==
    ListaVuota =>
        /\ facts = FattiIniziali \o <<Fatto("azione", "termina")>>
        /\ \A i \in 1..Len(log) :
              log[i].kind \in {"prompt", "call"} => log[i].name = "chiedi_ingredienti_disponibili"
        /\ IsPrefix(NomiFired, <<"chiedi_ingredienti", "terminare_esecuzione">>)
        /\ pc = "ask_nuova" => NomiFired = <<"chiedi_ingredienti", "terminare_esecuzione">>
        /\ pc \in {"run", "ask_nuova", "exit"}

\* the user gave no ingredient and the consultation is over
C22_Witness ==
    /\ ListaVuota
    /\ pc = "ask_nuova"
    /\ Firings("terminare_esecuzione") # {}
    /\ Len(facts) = 3

---------------------------------------------------------------------------
(* C23 - Selection sees every candidate: when scegli_candidati fires no     *)
(* activation of a candidate rule is on the agenda, and the candidato facts *)
(* it reads are the candidates of all the candidate rules that the          *)
(* ingredient and time facts satisfy; the list it presents for selection    *)
(* holds exactly these.                                                     *)

Satisfied(F) ==
    {r \in RegoleCandidato :
        \E a \in Cond_suggerisci_pasta_pomodoro(F) \cup Cond_suggerisci_uova_strapazzate(F)
                   \cup Cond_suggerisci_insalata(F) : a.rule = r}

C23_FiresAfterCandidates ==
    (FireStep /\ FiredAct.rule = "scegli_candidati") =>
        /\ \A b \in agenda : b.rule \notin RegoleCandidato
        /\ Candidati = {Candidato(r) : r \in Satisfied(facts)}

C23_ListIsComplete ==
    pc = "ask_scelta" => Range(candidati_lista) = {Candidato(r) : r \in Satisfied(facts)}

C23_SeesEveryCandidate == [][C23_FiresAfterCandidates]_vars /\ []C23_ListIsComplete

\* two candidate rules were satisfied and the user is asked to choose
C23_Witness ==
    /\ pc = "ask_scelta"
    /\ retries = 0
    /\ Satisfied(facts) = {Uova, Insalata}
    /\ Range(candidati_lista) = {"Uova Strapazzate", "Insalata Mista"}

---------------------------------------------------------------------------
(* C24 - Fallback and selection are mutually exclusive: in one consultation *)
(* nessuna_ricetta_trovata and scegli_candidati do not both fire;           *)
(* nessuna_ricetta_trovata fires only when the fact list holds no candidato *)
(* fact, and once it has fired no candidato fact is ever in the fact list.  *)

C24_NotBoth ==
    ~(Firings("nessuna_ricetta_trovata") # {} /\ Firings("scegli_candidati") # {})

C24_FiresWithoutCandidate ==
    (FireStep /\ FiredAct.rule = "nessuna_ricetta_trovata") => IdxAny(facts, "candidato") = {}

C24_NoCandidateAfter ==
    Firings("nessuna_ricetta_trovata") # {} =>
        /\ IdxAny(facts, "candidato") = {}
        /\ \A b \in agenda : b.rule \notin RegoleCandidato \cup {"scegli_candidati"}

C24_MutuallyExclusive ==
    [](C24_NotBoth /\ C24_NoCandidateAfter) /\ [][C24_FiresWithoutCandidate]_vars

\* the fallback fired for a user whose ingredients match no recipe and the
\* consultation went on to its end
C24_Witness ==
    /\ Firings("nessuna_ricetta_trovata") # {}
    /\ Firings("terminare_esecuzione") # {}
    /\ IdxAny(facts, "ingrediente") # {}

---------------------------------------------------------------------------
(* C25 - terminare_esecuzione fires exactly once in every consultation that *)
(* completes and it is the last rule to fire: when run() has returned the   *)
(* history holds one firing of it; once it has fired the agenda is empty,   *)
(* nothing follows it in the history, no rule fires and the fact list stays *)
(* as it was at the firing until a new consultation starts. This holds      *)
(* also when azione=termina was declared by more than one action.           *)

Terminata == Firings("terminare_esecuzione") # {}

C25_OnceWhenComplete ==
    pc \in {"ask_nuova", "exit"} => Cardinality(Firings("terminare_esecuzione")) = 1

C25_Last ==
    Terminata =>
        /\ Firings("terminare_esecuzione") = {Len(log)}
        /\ agenda = {}
        /\ Len(facts) = log[Len(log)].at
        /\ pc \in {"run", "ask_nuova", "exit"}

C25_NothingAfter ==
    Terminata => /\ ~FireStep
                 /\ facts' = facts \/ NuovaConsulenza

C25_FiresOnceAndLast ==
    [](C25_OnceWhenComplete /\ C25_Last) /\ [][C25_NothingAfter]_vars

\* azione=termina was declared again by a later firing of
\* stampare_risultato_finale, and the consultation is over
C25_Witness ==
    /\ pc = "ask_nuova"
    /\ Terminata
    /\ Dups("azione", "termina") # {}
    /\ Cardinality(Firings("stampare_risultato_finale")) >= 2

---------------------------------------------------------------------------
(* C26 - At most one recipe is suggested per consultation: the fact list    *)
(* holds at most one ricetta_suggerita fact in every reachable state.       *)
(* scegli_candidati has one activation for each candidato fact, so with two *)
(* candidates the user chooses twice and can choose two recipes.            *)

Suggerite == IdxAny(facts, "ricetta_suggerita")

C26_AtMostOneRecipe == Cardinality(Suggerite) <= 1

---------------------------------------------------------------------------
(* C27 - The final advice is produced at most once per consultation:        *)
(* stampare_risultato_finale fires at most once, valuta_ricetta_con_bayes   *)
(* fires at most once, at most one valutazione_ricetta fact exists and the  *)
(* question about the alternative recipe is asked at most once. Each holds  *)
(* only while one recipe is suggested.                                      *)

C27_PrintedOnce == Cardinality(Firings("stampare_risultato_finale")) <= 1

C27_EvaluatedOnce == Cardinality(Firings("valuta_ricetta_con_bayes")) <= 1

C27_OneEvaluation == Cardinality(IdxAny(facts, "valutazione_ricetta")) <= 1

C27_AskedOnce ==
    Cardinality({e \in Prompts("alternativa") : e - 1 \in Lookups}) <= 1

C27_AdviceOnce ==
    C27_PrintedOnce /\ C27_EvaluatedOnce /\ C27_OneEvaluation /\ C27_AskedOnce

---------------------------------------------------------------------------
(* C28 - Exactly one time fact bounds the candidates: the fact list never   *)
(* holds two tempo_disponibile facts and holds exactly one once the action  *)
(* of chiedi_tempo has returned; suggerisci_pasta_pomodoro has at most one  *)
(* activation; candidato=Pasta al Pomodoro is never in the fact list        *)
(* together with candidato=Uova Strapazzate or candidato=Insalata Mista;    *)
(* at most two candidato facts exist.                                       *)

Tempi == IdxAny(facts, "tempo_disponibile")

C28_OneTime ==
    /\ Cardinality(Tempi) <= 1
    /\ (Firings("chiedi_tempo") # {} /\ pc # "ask_tempo") => Cardinality(Tempi) = 1
    /\ Firings("chiedi_tempo") = {} => Tempi = {}

C28_OnePastaActivation ==
    /\ Cardinality(Cond_suggerisci_pasta_pomodoro(facts)) <= 1
    /\ Cardinality({a \in agenda : a.rule = "suggerisci_pasta_pomodoro"}) <= 1
    /\ Cardinality(Firings("suggerisci_pasta_pomodoro")) <= 1

C28_PastaAlone ==
    Has("candidato", "Pasta al Pomodoro") =>
        ~Has("candidato", "Uova Strapazzate") /\ ~Has("candidato", "Insalata Mista")

C28_AtMostTwo == Cardinality(IdxAny(facts, "candidato")) <= 2

C28_OneTimeBoundsCandidates ==
    C28_OneTime /\ C28_OnePastaActivation /\ C28_PastaAlone /\ C28_AtMostTwo

\* the user has the ingredients of all three recipes: with little time two
\* candidates were asserted and Pasta al Pomodoro was not
C28_Witness ==
    /\ Cardinality(Tempi) = 1
    /\ Ing(facts, "pasta") # {} /\ Ing(facts, "pomodoro") # {}
    /\ Ing(facts, "uova") # {} /\ Ing(facts, "lattuga") # {}
    /\ Cardinality(IdxAny(facts, "candidato")) = 2
    /\ ~Has("candidato", "Pasta al Pomodoro")

---------------------------------------------------------------------------
(* C29 - Time categorisation: a positive number of minutes m gives the      *)
(* category poco exactly when m <= 20, medio exactly when 21 <= m <= 60 and *)
(* molto exactly when m > 60; the answer m to the time prompt asserts the   *)
(* tempo_disponibile fact of that category and no other, and no             *)
(* tempo_disponibile fact ever carries another value.                       *)

Categorie == {"poco", "medio", "molto"}

\* category c is the one the three ranges give to m
NellaFascia(m, c) ==
    /\ (c = "poco") <=> (m <= 20)
    /\ (c = "medio") <=> (21 <= m /\ m <= 60)
    /\ (c = "molto") <=> (m > 60)

C29_Conversion ==
    \A m \in 1..MaxMinuti :
        /\ converti_tempo_in_categoria(m) \in Categorie
        /\ NellaFascia(m, converti_tempo_in_categoria(m))

C29_Asserted ==
    pc = "ask_tempo" =>
        \A risposta \in RisposteTempo :
            Positivo(risposta) =>
                ~ENABLED (chiedi_tempo_disponibile(risposta)
                          /\ \E c \in Categorie :
                                ~(Present(facts', Fatto("tempo_disponibile", c))
                                    <=> NellaFascia(risposta.n, c)))

C29_OnlyCategories == \A i \in Tempi : facts[i].v \in Categorie

C29_TimeCategory == C29_Conversion /\ C29_Asserted /\ C29_OnlyCategories

\* 21 or 60 minutes were given and the fact of the middle category is there
C29_Witness ==
    /\ pc = "ask_preferenze"
    /\ Has("tempo_disponibile", "medio")
    /\ Cardinality(Tempi) = 1

====
